---- MODULE Spec2Model ----
(***************************************************************************)
(* Model of CMBlockMarkerHelperV2 (src/src/lib/papers/papersLib.ts): the   *)
(* block scanner of process() and the decoration reconciler _markRanges(), *)
(* together with the part of the CodeMirror editor they read and write     *)
(* (document lines, cursor, selection, text markers, line widgets); and of *)
(* markdownRenderTasks (taskRender.ts): the rendered task checkboxes, with *)
(* their click handler and their optionChange listener, and of             *)
(* markdownRenderHTags (render-h-tags.ts): the heading indicators and      *)
(* their menu.                                                             *)
(***************************************************************************)
EXTENDS Integers, Sequences, FiniteSets, TLC

VARIABLES doc, viewport, cursor, anchor, markers, widgets, clearOnClick, renderWhenEditing,
          last, edits, flags, lastIndex,
          taskLines, taskMarkers, cboxes, listeners, readOnly, taskLast, taskViewport,
          menu

blockVars == <<doc, viewport, cursor, anchor, markers, widgets, clearOnClick, renderWhenEditing,
               last, edits, flags, lastIndex>>
taskVars == <<taskLines, taskMarkers, cboxes, listeners, readOnly, taskLast, taskViewport,
              menu>>
vars == <<blockVars, taskVars>>

(***************************************************************************)
(* Bounds.                                                                 *)
(***************************************************************************)
\* longest initial document of the editing specification
MaxInitLines == 3
\* longest document that edits can make
MaxLines == 4
\* most edits of the document in one run
MaxEdits == 1
\* longest document of the scanning specification
MaxScanLines == 4
\* most checkbox elements alive at a time
MaxBoxes == 2
\* most leading spaces of a line that a space is typed in front of
MaxLead == 1
\* highest heading level chosen from the menu of a heading indicator
MaxLevel == 2

(***************************************************************************)
(* Text.  A line is one of a few strings; Chars gives its characters, so   *)
(* that length, pattern tests and joins are computed from the characters.  *)
(***************************************************************************)
Chars(s) ==
  CASE s = "a" -> <<"a">>
    [] s = "b" -> <<"b">>
    [] s = "pre" -> <<"p", "r", "e">>
    [] s = "post" -> <<"p", "o", "s", "t">>
    [] s = "<<<BEGIN" -> <<"<", "<", "<", "B", "E", "G", "I", "N">>
    [] s = "END>>>" -> <<"E", "N", "D", ">", ">", ">">>
    [] s = "<<<BEGIN END>>>" ->
         <<"<", "<", "<", "B", "E", "G", "I", "N", " ", "E", "N", "D", ">", ">", ">">>
    [] s = "<<<BEGINEND>>>" -> <<"<", "<", "<", "B", "E", "G", "I", "N", "E", "N", "D", ">", ">", ">">>
    [] s = "END>>><<<BEGIN" -> <<"E", "N", "D", ">", ">", ">", "<", "<", "<", "B", "E", "G", "I", "N">>
    [] s = "END>>>a" -> <<"E", "N", "D", ">", ">", ">", "a">>
    [] s = "a<<<BEGIN" -> <<"a", "<", "<", "<", "B", "E", "G", "I", "N">>

\* the strings that lines are made of
Lines == {"a", "b", "pre", "post", "<<<BEGIN", "END>>>", "<<<BEGIN END>>>",
          "<<<BEGINEND>>>", "END>>><<<BEGIN", "END>>>a", "a<<<BEGIN"}

\* String.prototype.length, computed once for every string
StrLenTable == [s \in Lines |-> Len(Chars(s))]
StrLen(s) == StrLenTable[s]

\* the caller's begin-token and end-token patterns, /<<<BEGIN/ and /END>>>/
blockStartTokenRegexp == Chars("<<<BEGIN")
blockEndTokenRegex == Chars("END>>>")

\* first index (0-based) at or after k at which pat occurs in s, or -1
SearchFrom(s, pat, k) ==
  LET c == Chars(s)
      hits == {i \in (k + 1)..(Len(c) - Len(pat) + 1) : SubSeq(c, i, i + Len(pat) - 1) = pat}
  IN IF hits = {} THEN -1 ELSE (CHOOSE i \in hits : \A j \in hits : i <= j) - 1

\* first index (0-based) at which pattern pat occurs in string s, or -1,
\* computed once for every string and both patterns
SearchTable ==
  [s \in Lines |-> [pat \in {blockStartTokenRegexp, blockEndTokenRegex} |-> SearchFrom(s, pat, 0)]]
Search(s, pat) == SearchTable[s][pat]

\* RegExp.prototype.test of a pattern without the global or sticky flag
RegTest(pat, s) == Search(s, pat) >= 0

\* String.prototype.match of such a pattern: the matched text and its index
RegMatch(pat, s) == [text |-> pat, index |-> Search(s, pat)]

\* the null of a match that failed
Null == [text |-> <<>>, index |-> -1]

\* RegExp.prototype.exec of pattern pat with flags fl ("" none, "g" global,
\* "y" sticky) and lastIndex li on string s: the index of the match or -1, and
\* the lastIndex the pattern object is left with
RegExec(pat, fl, li, s) ==
  IF fl = "" THEN [index |-> Search(s, pat), lastIndex |-> li]
  ELSE LET at == IF li > StrLen(s) THEN -1
                 ELSE IF fl = "g" THEN SearchFrom(s, pat, li)
                 ELSE IF li + Len(pat) <= StrLen(s)
                         /\ SubSeq(Chars(s), li + 1, li + Len(pat)) = pat THEN li
                 ELSE -1
       IN IF at < 0 THEN [index |-> -1, lastIndex |-> 0]
          ELSE [index |-> at, lastIndex |-> at + Len(pat)]

\* pattern.test(s) on a pattern object that may keep a lastIndex
testResult(r) == [ok |-> r.index >= 0, lastIndex |-> r.lastIndex]
RegTestAt(pat, fl, li, s) == testResult(RegExec(pat, fl, li, s))

\* s.match(pattern) on such an object: a global pattern is matched from index
\* 0 and left with lastIndex 0, and its result, the array of the matched
\* texts, has no index; any other pattern is matched as exec matches it
matchResult(pat, r) ==
  [value |-> IF r.index >= 0 THEN [text |-> pat, index |-> r.index] ELSE Null,
   lastIndex |-> r.lastIndex]
RegMatchAt(pat, fl, li, s) ==
  IF fl = "g"
  THEN [value |-> IF Search(s, pat) >= 0 THEN [text |-> pat, index |-> -1] ELSE Null,
        lastIndex |-> 0]
  ELSE matchResult(pat, RegExec(pat, fl, li, s))

\* Array.prototype.join('\n') of a sequence of lines, as characters
RECURSIVE JoinLines(_)
JoinLines(ls) ==
  IF ls = <<>> THEN <<>>
  ELSE IF Len(ls) = 1 THEN Chars(ls[1])
  ELSE Chars(ls[1]) \o <<"\n">> \o JoinLines(Tail(ls))

(***************************************************************************)
(* The document: line i of the editor (0-based) is d[i + 1].               *)
(***************************************************************************)
getLine(d, i) == d[i + 1]
lineCount(d) == Len(d)

\* every [from, to) window of lines the editor can report for d
Viewports(d) == {vp \in [from : 0..(Len(d) - 1), to : 1..Len(d)] : vp.from < vp.to}

(***************************************************************************)
(* process(), lines 197-256: the scan for begin/end token pairs.           *)
(***************************************************************************)
BlockRange(d, f, t) ==
  [from |-> f, to |-> t,
   beginMatch |-> RegMatch(blockStartTokenRegexp, getLine(d, f)),
   endMatch |-> RegMatch(blockEndTokenRegex, getLine(d, t))]

\* The scanner's variables next to the loop counter: rx is the record
\* [begin, end, beginMatch, tests]: the lastIndex of the two pattern objects,
\* the variable beginMatch of line 204, and the tests made so far, each a
\* record [pat, line, ok].
scanLoopEnd(meetBeginToken, prevBeginTokenLineNumber, blockRangeList, rx) ==
  [meetBeginToken |-> meetBeginToken,
   prevBeginTokenLineNumber |-> prevBeginTokenLineNumber,
   blockRangeList |-> blockRangeList, rx |-> rx]

\* lines 219-220: the begin test of line i succeeded
withBeginMatch(rx, i, m) ==
  [rx EXCEPT !.begin = m.lastIndex, !.beginMatch = m.value,
             !.tests = Append(@, [pat |-> "begin", line |-> i, ok |-> TRUE])]
afterBegin(rx, line, i, t) ==
  withBeginMatch(rx, i, RegMatchAt(blockStartTokenRegexp, flags, t.lastIndex, line))

\* a begin or end test of line i failed
afterMiss(rx, pat, i, t) ==
  IF pat = "begin"
  THEN [rx EXCEPT !.begin = t.lastIndex,
                  !.tests = Append(@, [pat |-> pat, line |-> i, ok |-> FALSE])]
  ELSE [rx EXCEPT !.end = t.lastIndex,
                  !.tests = Append(@, [pat |-> pat, line |-> i, ok |-> FALSE])]

\* lines 228-229 and 246: the end test of line i succeeded; matched tells
\* whether line.match(blockEndTokenRegex) of line 234 or 251 is evaluated
afterEnd(rx, line, i, t, matched) ==
  [rx EXCEPT !.end = IF matched
                     THEN RegMatchAt(blockEndTokenRegex, flags, t.lastIndex, line).lastIndex
                     ELSE t.lastIndex,
             !.tests = Append(@, [pat |-> "end", line |-> i, ok |-> TRUE])]

\* the object pushed at lines 230-235 and 247-252
pushed(rx, line, i, t, prevBeginTokenLineNumber) ==
  [from |-> prevBeginTokenLineNumber, to |-> i, beginMatch |-> rx.beginMatch,
   endMatch |-> RegMatchAt(blockEndTokenRegex, flags, t.lastIndex, line).value]

\* the first loop, lines 215-240, from line i with the scanner state
\* (meetBeginToken, prevBeginTokenLineNumber), the ranges pushed so far and rx;
\* scanLine is its body, lines 216-239, for the text of line i, with b and e
\* the begin test of line 219 and the end test of line 228 on that text
RECURSIVE scanLoop(_, _, _, _, _, _, _, _)

\* scanLine with the scanner state reset only when the range is pushed
scanLineKeepsOpen(d, i, fromLine, toLine, meetBeginToken, prevBeginTokenLineNumber, blockRangeList, rx, line, b, e) ==
  IF ~meetBeginToken
  THEN IF b.ok
       THEN scanLoop(d, i + 1, fromLine, toLine, TRUE, i, blockRangeList,
                     afterBegin(rx, line, i, b))
       ELSE scanLoop(d, i + 1, fromLine, toLine, meetBeginToken,
                     prevBeginTokenLineNumber, blockRangeList,
                     afterMiss(rx, "begin", i, b))
  ELSE IF e.ok /\ i >= fromLine
  THEN scanLoop(d, i + 1, fromLine, toLine, FALSE, -1,
                Append(blockRangeList, pushed(rx, line, i, e, prevBeginTokenLineNumber)),
                afterEnd(rx, line, i, e, TRUE))
  ELSE IF e.ok
  THEN scanLoop(d, i + 1, fromLine, toLine, meetBeginToken,
                prevBeginTokenLineNumber, blockRangeList,
                afterEnd(rx, line, i, e, FALSE))
  ELSE scanLoop(d, i + 1, fromLine, toLine, meetBeginToken,
                prevBeginTokenLineNumber, blockRangeList,
                afterMiss(rx, "end", i, e))

scanLine(d, i, fromLine, toLine, meetBeginToken, prevBeginTokenLineNumber, blockRangeList, rx, line, b, e) ==
  IF ~meetBeginToken
  THEN IF b.ok
       THEN scanLoop(d, i + 1, fromLine, toLine, TRUE, i, blockRangeList,
                     afterBegin(rx, line, i, b))
       ELSE scanLoop(d, i + 1, fromLine, toLine, meetBeginToken,
                     prevBeginTokenLineNumber, blockRangeList,
                     afterMiss(rx, "begin", i, b))
  ELSE IF e.ok
  THEN scanLoop(d, i + 1, fromLine, toLine, FALSE, -1,
                IF i >= fromLine
                THEN Append(blockRangeList, pushed(rx, line, i, e, prevBeginTokenLineNumber))
                ELSE blockRangeList,
                afterEnd(rx, line, i, e, i >= fromLine))
  ELSE scanLoop(d, i + 1, fromLine, toLine, meetBeginToken,
                prevBeginTokenLineNumber, blockRangeList,
                afterMiss(rx, "end", i, e))
scanLoop(d, i, fromLine, toLine, meetBeginToken, prevBeginTokenLineNumber, blockRangeList, rx) ==
  IF i >= toLine
  THEN scanLoopEnd(meetBeginToken, prevBeginTokenLineNumber, blockRangeList, rx)
  ELSE scanLine(d, i, fromLine, toLine, meetBeginToken, prevBeginTokenLineNumber,
                blockRangeList, rx, getLine(d, i),
                RegTestAt(blockStartTokenRegexp, flags, rx.begin, getLine(d, i)),
                RegTestAt(blockEndTokenRegex, flags, rx.end, getLine(d, i)))

\* the second loop, lines 243-256, from line i; backOffLine is its body, lines
\* 244-255, for the text of line i, with e the end test of line 246 on it
RECURSIVE backOff(_, _, _, _, _)
backOffLine(d, i, prevBeginTokenLineNumber, blockRangeList, rx, line, e) ==
  IF e.ok
  THEN [blockRangeList |->
          Append(blockRangeList, pushed(rx, line, i, e, prevBeginTokenLineNumber)),
        rx |-> afterEnd(rx, line, i, e, TRUE)]
  ELSE backOff(d, i + 1, prevBeginTokenLineNumber, blockRangeList,
               afterMiss(rx, "end", i, e))
backOff(d, i, prevBeginTokenLineNumber, blockRangeList, rx) ==
  IF i >= lineCount(d) THEN [blockRangeList |-> blockRangeList, rx |-> rx]
  ELSE backOffLine(d, i, prevBeginTokenLineNumber, blockRangeList, rx, getLine(d, i),
                   RegTestAt(blockEndTokenRegex, flags, rx.end, getLine(d, i)))

\* the scan of process(afterSetValue), lines 197-256 (afterScanLoop: the test
\* of line 243 on the state s the first loop ended in; scanResult: what the
\* pass keeps of the scan), with pattern objects
\* whose lastIndex are li: the ranges, the tests made and the new lastIndex
scanResult(r) ==
  [blockRangeList |-> r.blockRangeList, tests |-> r.rx.tests,
   lastIndex |-> [begin |-> r.rx.begin, end |-> r.rx.end]]
afterScanLoop(d, vp, s) ==
  IF s.meetBeginToken
  THEN backOff(d, vp.to, s.prevBeginTokenLineNumber, s.blockRangeList, s.rx)
  ELSE [blockRangeList |-> s.blockRangeList, rx |-> s.rx]
scan(d, vp, afterSetValue, li) ==
  scanResult(afterScanLoop(d, vp,
     scanLoop(d, 0, IF afterSetValue THEN 0 ELSE vp.from,
              IF afterSetValue THEN lineCount(d) ELSE vp.to, FALSE, -1, <<>>,
              [begin |-> li.begin, end |-> li.end, beginMatch |-> Null, tests |-> <<>>])))

\* the blockRangeList that process(afterSetValue) hands to _markRanges
scanBlocks(d, vp, afterSetValue) == scan(d, vp, afterSetValue, lastIndex).blockRangeList

\* lines 319-322 and the join of lines 354, 368, 373
blockContent(d, f, t) ==
  JoinLines([k \in 1..(IF t - 1 >= f + 1 THEN t - f - 1 ELSE 0) |-> getLine(d, f + k)])

(***************************************************************************)
(* The decoration store of the editor.  A text marker is a record          *)
(* [id, className, from, to, onclick]; a line widget is a record           *)
(* [id, className, line, node], node being the children of its wrapper     *)
(* element.  The marker and the widget that one pass creates together      *)
(* carry the same id: that is how the handlers of setStyleAndLogical,      *)
(* which close over both objects, find them again.  seq is the place of a  *)
(* marker in the order in which the editor keeps the marked spans of a     *)
(* line: the order of attachment, 1..n over the n attached markers.  An    *)
(* edit that replaces the text from p to q leaves one line with the spans  *)
(* that start before p, in their order, followed by the other spans of the *)
(* line of q, in theirs.                                                   *)
(***************************************************************************)
MARKER_CLASS_NAME == "enhancement-block-marker"
lineWidgetClassName == "enhancement-block-marker-line-widget"

Pos(l, c) == [line |-> l, ch |-> c]
PosLess(a, b) == a.line < b.line \/ (a.line = b.line /\ a.ch < b.ch)

Element(content) == [el |-> "rendered", content |-> content]
editButton == [el |-> "editButton", content |-> <<>>]

\* an id that no attached marker or widget carries
freshId(ms, ws) ==
  LET used == {m.id : m \in ms} \cup {w.id : w \in ws}
  IN CHOOSE i \in 1..(Cardinality(used) + 1) : i \notin used

\* the line at which CodeMirror's findMarks(from, to) reports marker m, if any
foundAt(m, from, to) ==
  {n \in from.line..to.line :
     /\ m.from.line <= n /\ n <= m.to.line
     /\ ~(m.to.line = n /\ n = from.line /\ from.ch >= m.to.ch)
     /\ ~(m.from.line < n /\ n # from.line)
     /\ ~(m.from.line = n /\ n = to.line /\ m.from.ch >= to.ch)}

\* the markers of a line are reported in the order of its marked spans
foundKey(m, from, to) ==
  (CHOOSE n \in foundAt(m, from, to) : TRUE) * 1000 + m.seq

RECURSIVE sortFound(_, _, _)
sortFound(S, from, to) ==
  IF S = {} THEN <<>>
  ELSE LET m == CHOOSE x \in S : \A y \in S : foundKey(x, from, to) <= foundKey(y, from, to)
       IN <<m>> \o sortFound(S \ {m}, from, to)

\* editor.findMarks(from, to): the markers overlapping the range, line by
\* line, those of a line in the order of its marked spans
findMarks(ms, from, to) == sortFound({m \in ms : foundAt(m, from, to) # {}}, from, to)

\* cm-utils findLineWidgetAtLine: the widget of that class on the line, or 0
findLineWidgetAtLine(ws, line, className) ==
  LET at == {w \in ws : w.line = line /\ w.className = className}
  IN IF at = {} THEN 0 ELSE (CHOOSE w \in at : \A v \in at : w.id <= v.id).id

\* cm-utils isCursorOutRange
isCursorOutRange(cur, from, to) == cur < from.line \/ cur > to.line

\* cm-utils isRangeSelected: a non-empty selection that overlaps the lines
isRangeSelected(from, to, anc, cur) ==
  LET lo == IF anc < cur THEN anc ELSE cur
      hi == IF anc < cur THEN cur ELSE anc
  IN anc # cur /\ lo <= to.line /\ hi >= from.line

\* the markers that stay attached, in their order, seq again 1..n
compact(ms) == {[m EXCEPT !.seq = Cardinality({x \in ms : x.seq <= m.seq})] : m \in ms}

\* the r-th smallest number of S
nth(S, r) == CHOOSE x \in S : Cardinality({y \in S : y <= x}) = r

\* the place among the markers of the joined line: those of first, in their
\* order, then those of rest, in theirs
placeIn(m, first, rest) ==
  IF m \in first THEN Cardinality({x \in first : x.seq <= m.seq})
  ELSE Cardinality(first) + Cardinality({x \in rest : x.seq <= m.seq})

\* the markers of first and rest share out the places in the order that they
\* hold together; the other markers keep theirs
reseat(ms, first, rest) ==
  {IF m \in first \cup rest
   THEN [m EXCEPT !.seq = nth({x.seq : x \in first \cup rest}, placeIn(m, first, rest))]
   ELSE m : m \in ms}

\* the order of the markers ms, at their positions before the edit, after the
\* text from p to q is replaced by text without a line break
putBehind(ms, p, q) ==
  reseat(ms, {m \in ms : PosLess(m.from, p) /\ m.to.line >= p.line},
         {m \in ms : ~(PosLess(m.from, p) /\ m.to.line >= p.line)
                       /\ m.from.line <= q.line /\ q.line <= m.to.line})

\* TextMarker.clear and LineWidget.clear, by id (no effect once cleared)
clearMarker(ms, id) == compact({m \in ms : m.id # id})
clearWidget(ws, id) == {w \in ws : w.id # id}

\* doc.markText: a marker whose range is empty or reversed is not attached
markText(ms, id, from, to, onclick) ==
  IF PosLess(from, to)
  THEN ms \cup {[id |-> id, className |-> MARKER_CLASS_NAME, from |-> from, to |-> to,
                 onclick |-> onclick, seq |-> Cardinality(ms) + 1]}
  ELSE ms

\* createLineWidgetForMarker, lines 384-386
createLineWidgetForMarker(ws, id, line, node) ==
  ws \cup {[id |-> id, className |-> lineWidgetClassName, line |-> line, node |-> node]}

\* what setStyleAndLogical, lines 388-422, adds to a wrapper: the edit button
setStyleAndLogical(node) == Append(node, editButton)

(***************************************************************************)
(* _markRanges(), lines 267-382.  st is the store during the pass:         *)
(* [markers, widgets, threw, calls, blockRangeList, cleared], cleared being *)
(* the ids of the markers the pass has called clear() on; thr names the    *)
(* callback invocation that throws in this pass (at = 0: none).            *)
(***************************************************************************)
NoThrow == [at |-> 0, cb |-> "none"]

\* findLoop without the className test of line 282
RECURSIVE findLoopAnyClass(_, _, _, _, _)
findLoopAnyClass(fs, j, c, from, to) ==
  IF j > Len(fs) THEN c
  ELSE LET marker == fs[j] IN
       LET existingLineWidget == findLineWidgetAtLine(c.widgets, to.line, lineWidgetClassName)
           existingMarker == IF existingLineWidget # 0 THEN marker.id ELSE c.existingMarker
           c1 == IF marker.from.line # from.line \/ marker.to.line # to.line
                 THEN [c EXCEPT !.markers = clearMarker(@, marker.id),
                                !.widgets = clearWidget(@, existingLineWidget)]
                 ELSE IF existingMarker = 0
                 THEN [c EXCEPT !.markers = clearMarker(@, marker.id)]
                 ELSE c
       IN findLoopAnyClass(fs, j + 1,
                           [c1 EXCEPT !.existingMarker = existingMarker,
                                      !.existingLineWidget = existingLineWidget],
                           from, to)

\* the callback of lines 281-299 over the found markers fs[j..]
RECURSIVE findLoop(_, _, _, _, _)
findLoop(fs, j, c, from, to) ==
  IF j > Len(fs) THEN c
  ELSE LET marker == fs[j] IN
       IF marker.className # MARKER_CLASS_NAME THEN findLoop(fs, j + 1, c, from, to)
       ELSE LET existingLineWidget == findLineWidgetAtLine(c.widgets, to.line, lineWidgetClassName)
                existingMarker == IF existingLineWidget # 0 THEN marker.id ELSE c.existingMarker
                c1 == IF marker.from.line # from.line \/ marker.to.line # to.line
                      THEN [c EXCEPT !.markers = clearMarker(@, marker.id),
                                     !.widgets = clearWidget(@, existingLineWidget)]
                      ELSE IF existingMarker = 0
                      THEN [c EXCEPT !.markers = clearMarker(@, marker.id)]
                      ELSE c
            IN findLoop(fs, j + 1,
                        [c1 EXCEPT !.existingMarker = existingMarker,
                                   !.existingLineWidget = existingLineWidget],
                        from, to)

\* lines 301-307: no line widget inside the range
RECURSIVE clearInside(_, _, _)
clearInside(ws, i, toLine) ==
  IF i >= toLine THEN ws
  ELSE clearInside(clearWidget(ws, findLineWidgetAtLine(ws, i, lineWidgetClassName)), i + 1, toLine)

\* lines 310-316: the range is selected and the cursor is outside it
selectedBranch(st, c, ws1) ==
  IF c.existingMarker # 0
  THEN IF c.existingLineWidget = 0
       \* line 313 calls clear on undefined: TypeError
       THEN [st EXCEPT !.markers = clearMarker(c.markers, c.existingMarker),
                       !.widgets = ws1, !.threw = "TypeError"]
       ELSE [st EXCEPT !.markers = clearMarker(c.markers, c.existingMarker),
                       !.widgets = clearWidget(ws1, c.existingLineWidget)]
  ELSE [st EXCEPT !.markers = c.markers, !.widgets = ws1]

\* outsideBranch without the existingLineWidget.clear() of lines 332-335
outsideBranchKeepsWidget(st, c, ws1, from, to, content, throws) ==
  IF c.existingMarker # 0
  THEN [st EXCEPT !.markers = c.markers, !.widgets = ws1]
  ELSE LET ws2 == ws1
           id == freshId(c.markers, ws2)
       IN IF throws = "spanRenderer"
          THEN [st EXCEPT !.markers = c.markers, !.widgets = ws2,
                          !.threw = "spanRenderer", !.calls = @ + 1]
          ELSE IF throws = "renderer"
          THEN [st EXCEPT !.markers = markText(c.markers, id, from, to, FALSE),
                          !.widgets = ws2, !.threw = "renderer", !.calls = @ + 2]
          ELSE [st EXCEPT !.markers = markText(c.markers, id, from, to, clearOnClick),
                          !.widgets = createLineWidgetForMarker(ws2, id, to.line,
                                         setStyleAndLogical(<<Element(content)>>)),
                          !.calls = @ + 2]

\* lines 328-358: the cursor is outside the range
outsideBranch(st, c, ws1, from, to, content, throws) ==
  IF c.existingMarker # 0
  THEN [st EXCEPT !.markers = c.markers, !.widgets = ws1]
  ELSE LET ws2 == clearWidget(ws1, findLineWidgetAtLine(ws1, to.line, lineWidgetClassName))
           id == freshId(c.markers, ws2)
       IN IF throws = "spanRenderer"
          THEN [st EXCEPT !.markers = c.markers, !.widgets = ws2,
                          !.threw = "spanRenderer", !.calls = @ + 1]
          ELSE IF throws = "renderer"
          THEN [st EXCEPT !.markers = markText(c.markers, id, from, to, FALSE),
                          !.widgets = ws2, !.threw = "renderer", !.calls = @ + 2]
          ELSE [st EXCEPT !.markers = markText(c.markers, id, from, to, clearOnClick),
                          !.widgets = createLineWidgetForMarker(ws2, id, to.line,
                                         setStyleAndLogical(<<Element(content)>>)),
                          !.calls = @ + 2]

\* lines 359-380: the cursor is inside the range
insideBranch(st, c, ws1, from, to, content, throws) ==
  LET ms2 == clearMarker(c.markers, c.existingMarker)
      existingLineWidget == findLineWidgetAtLine(ws1, to.line, lineWidgetClassName)
  IN IF renderWhenEditing
     THEN IF existingLineWidget # 0
          THEN [st EXCEPT !.markers = ms2,
                          !.widgets = {IF w.id = existingLineWidget
                                       THEN [w EXCEPT !.node = IF throws = "renderer" THEN <<>>
                                                               ELSE <<Element(content)>>]
                                       ELSE w : w \in ws1},
                          !.threw = IF throws = "renderer" THEN "renderer" ELSE "none",
                          !.calls = @ + 1]
          ELSE IF throws = "renderer"
          THEN [st EXCEPT !.markers = ms2, !.widgets = ws1, !.threw = "renderer",
                          !.calls = @ + 1]
          ELSE [st EXCEPT !.markers = ms2,
                          !.widgets = createLineWidgetForMarker(ws1, freshId(ms2, ws1),
                                         to.line, <<Element(content)>>),
                          !.calls = @ + 1]
     ELSE [st EXCEPT !.markers = ms2, !.widgets = clearWidget(ws1, existingLineWidget)]

\* markRange with the end position of line 273 at ch 0
markRangeToLineStart(st, blockRange, idx, thr) ==
  LET from == Pos(blockRange.from, 0)
      to == Pos(blockRange.to, 0)
      cursorOutRange == isCursorOutRange(cursor, from, to)
      selected == isRangeSelected(from, to, anchor, cursor)
      c == findLoop(findMarks(st.markers, from, to), 1,
                    [markers |-> st.markers, widgets |-> st.widgets,
                     existingMarker |-> 0, existingLineWidget |-> 0], from, to)
      ws1 == clearInside(c.widgets, from.line, to.line)
      content == blockContent(doc, from.line, to.line)
      throws == IF thr.at = idx THEN thr.cb ELSE "none"
      res == IF selected /\ cursorOutRange THEN selectedBranch(st, c, ws1)
             ELSE IF cursorOutRange THEN outsideBranch(st, c, ws1, from, to, content, throws)
             ELSE insideBranch(st, c, ws1, from, to, content, throws)
      \* the markers that lines 291, 296, 312 and 361 called clear() on
      gone == ({m.id : m \in st.markers} \ {m.id : m \in c.markers}) \cup
              (IF c.existingMarker # 0 /\ (selected \/ ~cursorOutRange)
               THEN {m.id : m \in {x \in c.markers : x.id = c.existingMarker}} ELSE {})
  IN [res EXCEPT !.cleared = @ \cup gone]

\* one iteration of the loop of line 271 for blockRange, the idx-th range
markRange(st, blockRange, idx, thr) ==
  LET from == Pos(blockRange.from, 0)
      to == Pos(blockRange.to, StrLen(getLine(doc, blockRange.to)))
      cursorOutRange == isCursorOutRange(cursor, from, to)
      selected == isRangeSelected(from, to, anchor, cursor)
      c == findLoop(findMarks(st.markers, from, to), 1,
                    [markers |-> st.markers, widgets |-> st.widgets,
                     existingMarker |-> 0, existingLineWidget |-> 0], from, to)
      ws1 == clearInside(c.widgets, from.line, to.line)
      content == blockContent(doc, from.line, to.line)
      throws == IF thr.at = idx THEN thr.cb ELSE "none"
      res == IF selected /\ cursorOutRange THEN selectedBranch(st, c, ws1)
             ELSE IF cursorOutRange THEN outsideBranch(st, c, ws1, from, to, content, throws)
             ELSE insideBranch(st, c, ws1, from, to, content, throws)
      \* the markers that lines 291, 296, 312 and 361 called clear() on
      gone == ({m.id : m \in st.markers} \ {m.id : m \in c.markers}) \cup
              (IF c.existingMarker # 0 /\ (selected \/ ~cursorOutRange)
               THEN {m.id : m \in {x \in c.markers : x.id = c.existingMarker}} ELSE {})
  IN [res EXCEPT !.cleared = @ \cup gone]

\* the loop of line 271 from the idx-th range on; an exception ends the pass
RECURSIVE markRanges(_, _, _, _)
markRanges(st, blockRangeList, idx, thr) ==
  IF idx > Len(blockRangeList) \/ st.threw # "none" THEN st
  ELSE markRanges(markRange(st, blockRangeList[idx], idx, thr), blockRangeList, idx + 1, thr)

\* the pass record at line 258: the store, no exception, no callback made, and
\* what the scan s gave
passStart(s) ==
  [markers |-> markers, widgets |-> widgets, threw |-> "none", calls |-> 0,
   blockRangeList |-> s.blockRangeList, cleared |-> {},
   tests |-> s.tests, lastIndex |-> s.lastIndex]

\* afterScan that clears the tagged decorations when the scan finds no block
afterScanSweeps(st, thr) ==
  IF st.blockRangeList = <<>>
  THEN [st EXCEPT !.markers = compact({m \in markers : m.className # MARKER_CLASS_NAME}),
                  !.widgets = {w \in widgets : w.className # lineWidgetClassName}]
  ELSE markRanges(st, st.blockRangeList, 1, thr)

\* lines 259-264: nothing to do for an empty blockRangeList, else _markRanges
afterScan(st, thr) ==
  IF st.blockRangeList = <<>> THEN st ELSE markRanges(st, st.blockRangeList, 1, thr)

\* process(afterSetValue), lines 197-265, as a function of the store
process(afterSetValue, thr) ==
  afterScan(passStart(scan(doc, viewport, afterSetValue, lastIndex)), thr)

(***************************************************************************)
(* State.  doc, cursor (the line of the selection head), anchor (the line  *)
(* of the selection anchor; no selection when equal to cursor), markers    *)
(* and widgets belong to the editor; clearOnClick and renderWhenEditing    *)
(* are the constructor's options.  last records the latest operation: for  *)
(* a pass, its mode, emitted ranges, whether it threw, how many renderer   *)
(* callbacks it invoked, the pattern tests its scan made and the store it   *)
(* started from.  flags are the flags of the two pattern objects the       *)
(* caller supplied and lastIndex their lastIndex.  viewport is the         *)
(* editor's window of lines; a document of the editing specification fits  *)
(* in the window.                                                          *)
(***************************************************************************)
\* the lines an edit can type
EditLines == {"a", "<<<BEGIN", "END>>>"}

\* the window of a document that fits on the screen
WholeDoc(d) == [from |-> 0, to |-> Len(d)]

Docs(n) == UNION {[1..k -> EditLines] : k \in 1..n}

\* the record of the latest operation on the task checkboxes
TaskHistory(op) ==
  [op |-> op, box |-> 0, lines |-> <<>>, markers |-> {}, readOnly |-> FALSE, found |-> FALSE,
   from |-> 0, to |-> 0, line |-> 0, streak |-> 0, origin |-> <<>>]

\* no menu of a heading indicator is open
NoMenu == [open |-> FALSE, textMarker |-> 0]

\* a state without task lines
NoTasks ==
  /\ taskLines = <<>>
  /\ taskMarkers = {}
  /\ cboxes = {}
  /\ listeners = {}
  /\ readOnly = FALSE
  /\ taskLast = TaskHistory("init")
  /\ taskViewport = [from |-> 0, to |-> 0]
  /\ menu = NoMenu

History(op) ==
  [op |-> op, afterSetValue |-> FALSE,
   blockRangeList |-> <<>>, threw |-> "none", calls |-> 0, markers |-> {}, widgets |-> {},
   cleared |-> {}, tests |-> <<>>]

Init ==
  /\ doc \in Docs(MaxInitLines)
  /\ viewport = WholeDoc(doc)
  /\ cursor = 0
  /\ anchor = 0
  /\ markers = {}
  /\ widgets = {}
  /\ clearOnClick \in BOOLEAN
  /\ renderWhenEditing \in BOOLEAN
  /\ last = History("init")
  /\ edits = 0
  /\ flags = ""
  /\ lastIndex = [begin |-> 0, end |-> 0]
  /\ NoTasks

\* the callback invocations of a pass that can be chosen to throw
Throws(n) == {NoThrow} \cup [at : 1..n, cb : {"spanRenderer", "renderer"}]

\* one call of process(afterSetValue): Pass installs the pass record st
Pass(afterSetValue, st) ==
  /\ markers' = st.markers
  /\ widgets' = st.widgets
  /\ last' = [op |-> "process", afterSetValue |-> afterSetValue,
              blockRangeList |-> st.blockRangeList,
              threw |-> st.threw, calls |-> st.calls,
              markers |-> markers, widgets |-> widgets, cleared |-> st.cleared,
              tests |-> st.tests]
  /\ lastIndex' = st.lastIndex
  /\ UNCHANGED <<doc, viewport, cursor, anchor, clearOnClick, renderWhenEditing, edits, flags, taskVars>>
Process(afterSetValue, thr) == Pass(afterSetValue, process(afterSetValue, thr))

\* the user moves the cursor or selects: anchor a, head h
SetSelection(a, h) ==
  /\ <<a, h>> # <<anchor, cursor>>
  /\ anchor' = a
  /\ cursor' = h
  /\ last' = History("select")
  /\ UNCHANGED <<doc, viewport, markers, widgets, clearOnClick, renderWhenEditing, edits, flags, lastIndex, taskVars>>

\* markers that an edit left empty are detached (clearWhenEmpty)
dropEmpty(ms) == compact({m \in ms : PosLess(m.from, m.to)})

\* a new line s is inserted before line k (k = lineCount: appended behind the
\* end of the last line); atEnd tells which ends of the selection stand at
\* the end of the last line: text inserted where an end of the selection
\* stands moves that end behind the text
InsertLine(k, s, atEnd) ==
  LET n == Len(doc)
      shiftFrom(p) == IF k < n /\ p.line >= k THEN Pos(p.line + 1, p.ch) ELSE p
      shiftTo(p) == IF k < n /\ (p.line > k \/ (p.line = k /\ p.ch > 0))
                    THEN Pos(p.line + 1, p.ch) ELSE p
      shiftLine(l) == IF k < n /\ l >= k THEN l + 1 ELSE l
  IN
  /\ n < MaxLines
  /\ edits < MaxEdits
  /\ atEnd.cursor => (k = n /\ cursor = n - 1)
  /\ atEnd.anchor => (k = n /\ anchor = n - 1)
  /\ doc' = SubSeq(doc, 1, k) \o <<s>> \o SubSeq(doc, k + 1, n)
  /\ markers' = dropEmpty({[m EXCEPT !.from = shiftFrom(@), !.to = shiftTo(@)] : m \in markers})
  /\ widgets' = {[w EXCEPT !.line = shiftLine(@)] : w \in widgets}
  /\ cursor' = IF atEnd.cursor THEN n ELSE shiftLine(cursor)
  /\ anchor' = IF atEnd.anchor THEN n ELSE shiftLine(anchor)
  /\ last' = History("edit")
  /\ viewport' = WholeDoc(doc')
  /\ edits' = edits + 1
  /\ UNCHANGED <<clearOnClick, renderWhenEditing, flags, lastIndex, taskVars>>

\* line k is deleted with its line break
DeleteLine(k) ==
  LET n == Len(doc)
      move(p) == IF p.line < k THEN p
                 ELSE IF p.line > k THEN Pos(p.line - 1, p.ch)
                 ELSE IF k < n - 1 THEN Pos(k, 0)
                 ELSE Pos(k - 1, StrLen(getLine(doc, k - 1)))
      moveLine(l) == IF l < k THEN l
                     ELSE IF l > k THEN l - 1
                     ELSE IF k < n - 1 THEN k ELSE k - 1
      \* the text that goes: line k and the line break after it, or, for the
      \* last line, the line break before it and the line
      delFrom == IF k < n - 1 THEN Pos(k, 0) ELSE Pos(k - 1, StrLen(getLine(doc, k - 1)))
      delTo == IF k < n - 1 THEN Pos(k + 1, 0) ELSE Pos(k, StrLen(getLine(doc, k)))
  IN
  /\ n > 1
  /\ edits < MaxEdits
  /\ doc' = SubSeq(doc, 1, k) \o SubSeq(doc, k + 2, n)
  /\ markers' = dropEmpty({[m EXCEPT !.from = move(@), !.to = move(@)] :
                               m \in putBehind(markers, delFrom, delTo)})
  /\ widgets' = {[w EXCEPT !.line = moveLine(@)] : w \in {v \in widgets : v.line # k}}
  /\ cursor' = moveLine(cursor)
  /\ anchor' = moveLine(anchor)
  /\ last' = History("edit")
  /\ viewport' = WholeDoc(doc')
  /\ edits' = edits + 1
  /\ UNCHANGED <<clearOnClick, renderWhenEditing, flags, lastIndex, taskVars>>

\* the text of line k is replaced by s
ReplaceLine(k, s) ==
  LET newFrom(p) == IF p.line = k THEN Pos(k, StrLen(s)) ELSE p
      newTo(p) == IF p.line = k /\ p.ch > 0 THEN Pos(k, 0) ELSE p
  IN
  /\ getLine(doc, k) # s
  /\ edits < MaxEdits
  /\ doc' = [doc EXCEPT ![k + 1] = s]
  /\ markers' = dropEmpty({[m EXCEPT !.from = newFrom(@), !.to = newTo(@)] :
                               m \in putBehind(markers, Pos(k, 0),
                                                Pos(k, StrLen(getLine(doc, k))))})
  /\ last' = History("edit")
  /\ viewport' = WholeDoc(doc')
  /\ edits' = edits + 1
  /\ UNCHANGED <<cursor, anchor, widgets, clearOnClick, renderWhenEditing, flags, lastIndex, taskVars>>

\* click-and-clear: the marker is cleared and the cursor is put on the line l
\* of the revealed text where the click landed
clickAndClear(ms, id, l) == [markers |-> clearMarker(ms, id), cursor |-> l, anchor |-> l]

\* makerEl.onclick, lines 396-399, on a marker that setStyleAndLogical wired
MarkerClick(m, l) ==
  /\ m \in markers
  /\ m.onclick
  /\ l \in m.from.line..m.to.line
  /\ widgets' = clearWidget(widgets, m.id)
  /\ markers' = clickAndClear(markers, m.id, l).markers
  /\ cursor' = clickAndClear(markers, m.id, l).cursor
  /\ anchor' = clickAndClear(markers, m.id, l).anchor
  /\ last' = History("markerclick")
  /\ UNCHANGED <<doc, viewport, clearOnClick, renderWhenEditing, edits, flags, lastIndex, taskVars>>

\* editButton.onclick, lines 401-412, on a widget that still has its button
EditClick(w) ==
  LET bound == {m \in markers : m.id = w.id}
      textMarker == CHOOSE m \in bound : TRUE
      clip(l) == IF l > Len(doc) - 1 THEN Len(doc) - 1 ELSE l
  IN
  /\ w \in widgets
  /\ \E i \in 1..Len(w.node) : w.node[i] = editButton
  /\ IF bound = {}
     \* textMarker.find() is undefined once the marker is cleared: TypeError
     THEN /\ last' = [History("editclick") EXCEPT !.threw = "TypeError"]
          /\ UNCHANGED <<markers, cursor, anchor>>
     ELSE /\ markers' = clearMarker(markers, w.id)
          /\ IF textMarker.to.line - 1 < 0
             \* getLine(-1) is undefined: TypeError after the marker was cleared
             THEN /\ last' = [History("editclick") EXCEPT !.threw = "TypeError"]
                  /\ UNCHANGED <<cursor, anchor>>
             ELSE /\ anchor' = clip(textMarker.from.line + 1)
                  /\ cursor' = textMarker.to.line - 1
                  /\ last' = History("editclick")
  /\ UNCHANGED <<doc, viewport, widgets, clearOnClick, renderWhenEditing, edits, flags, lastIndex, taskVars>>

Next ==
  \/ \E afterSetValue \in BOOLEAN :
       \E thr \in Throws(Len(scanBlocks(doc, viewport, afterSetValue))) :
          Process(afterSetValue, thr)
  \/ \E a, h \in 0..(Len(doc) - 1) : SetSelection(a, h)
  \/ \E k \in 0..Len(doc), s \in EditLines, atEnd \in [cursor : BOOLEAN, anchor : BOOLEAN] :
       InsertLine(k, s, atEnd)
  \/ \E k \in 0..(Len(doc) - 1) : DeleteLine(k)
  \/ \E k \in 0..(Len(doc) - 1), s \in EditLines : ReplaceLine(k, s)
  \/ \E m \in markers, l \in 0..(Len(doc) - 1) : MarkerClick(m, l)
  \/ \E w \in widgets : EditClick(w)

Spec == Init /\ [][Next]_vars

TypeOK ==
  /\ Len(doc) \in 1..MaxLines
  /\ cursor \in 0..(Len(doc) - 1)
  /\ anchor \in 0..(Len(doc) - 1)
  /\ \A m \in markers : PosLess(m.from, m.to) /\ m.from.line >= 0 /\ m.to.line < Len(doc)
  /\ \A w \in widgets : w.line \in 0..(Len(doc) - 1)

(***************************************************************************)
(* The scanning specification: longer documents, every window of lines,    *)
(* passes only.  Its documents also use a line that matches both patterns. *)
(***************************************************************************)
ScanLines == EditLines \cup {"<<<BEGIN END>>>"}

ExampleDoc == <<"pre", "<<<BEGIN", "a", "b", "END>>>", "post">>

ScanDocs == UNION {[1..k -> ScanLines] : k \in 1..MaxScanLines} \cup {ExampleDoc}

ScanInit ==
  /\ doc \in ScanDocs
  /\ viewport \in Viewports(doc)
  /\ cursor = Len(doc) - 1
  /\ anchor = Len(doc) - 1
  /\ markers = {}
  /\ widgets = {}
  /\ clearOnClick = FALSE
  /\ renderWhenEditing = FALSE
  /\ last = History("init")
  /\ edits = 0
  /\ flags = ""
  /\ lastIndex = [begin |-> 0, end |-> 0]
  /\ NoTasks

ScanNext == \E afterSetValue \in BOOLEAN : Process(afterSetValue, NoThrow)

ScanSpec == ScanInit /\ [][ScanNext]_vars

(***************************************************************************)
(* The specification with decorations of other kinds: the store starts     *)
(* with markers and line widgets that other code attached, under other     *)
(* class names; passes, cursor moves, selections and the two handlers.     *)
(***************************************************************************)
OtherMarker(id, from, to) ==
  [id |-> id, className |-> "other-marker", from |-> from, to |-> to, onclick |-> FALSE,
   seq |-> id]
OtherWidget(id, line) ==
  [id |-> id, className |-> "other-line-widget", line |-> line, node |-> <<>>]

\* a marker over the whole of d and one on the first character of its last line
OtherMarkers(d) ==
  {OtherMarker(8, Pos(0, 0), Pos(Len(d) - 1, StrLen(d[Len(d)]))),
   OtherMarker(9, Pos(Len(d) - 1, 0), Pos(Len(d) - 1, 1))}

\* a widget on the last line of d and one on its first line
OtherWidgets(d) == {OtherWidget(6, Len(d) - 1), OtherWidget(7, 0)}

TagInit ==
  /\ doc \in Docs(MaxInitLines)
  /\ viewport = WholeDoc(doc)
  /\ cursor = 0
  /\ anchor = 0
  /\ \E ms \in SUBSET OtherMarkers(doc) : markers = compact(ms)
  /\ widgets \in SUBSET OtherWidgets(doc)
  /\ clearOnClick \in BOOLEAN
  /\ renderWhenEditing \in BOOLEAN
  /\ last = History("init")
  /\ edits = 0
  /\ flags = ""
  /\ lastIndex = [begin |-> 0, end |-> 0]
  /\ NoTasks

TagNext ==
  \/ \E afterSetValue \in BOOLEAN :
       \E thr \in Throws(Len(scanBlocks(doc, viewport, afterSetValue))) :
          Process(afterSetValue, thr)
  \/ \E a, h \in 0..(Len(doc) - 1) : SetSelection(a, h)
  \/ \E m \in markers, l \in 0..(Len(doc) - 1) : MarkerClick(m, l)
  \/ \E w \in widgets : EditClick(w)

TagSpec == TagInit /\ [][TagNext]_vars

(***************************************************************************)
(* The specification of pattern objects: as the scanning specification,    *)
(* with begin and end patterns that carry no flag, the global flag or the  *)
(* sticky flag; their lastIndex is 0 when the helper is constructed.       *)
(***************************************************************************)
PatternInit ==
  /\ doc \in ScanDocs
  /\ viewport \in Viewports(doc)
  /\ cursor = Len(doc) - 1
  /\ anchor = Len(doc) - 1
  /\ markers = {}
  /\ widgets = {}
  /\ clearOnClick = FALSE
  /\ renderWhenEditing = FALSE
  /\ last = History("init")
  /\ edits = 0
  /\ flags \in {"", "g", "y"}
  /\ lastIndex = [begin |-> 0, end |-> 0]
  /\ NoTasks

PatternNext == \E afterSetValue \in BOOLEAN : Process(afterSetValue, NoThrow)

PatternSpec == PatternInit /\ [][PatternNext]_vars

(***************************************************************************)
(* The specification of line rewrites: passes, cursor moves, selections    *)
(* and one edit that replaces the text of a line by any line of ScanLines, *)
(* among them a line that still matches the begin or the end pattern.      *)
(***************************************************************************)
RewriteNext ==
  \/ \E afterSetValue \in BOOLEAN :
       \E thr \in Throws(Len(scanBlocks(doc, viewport, afterSetValue))) :
          Process(afterSetValue, thr)
  \/ \E a, h \in 0..(Len(doc) - 1) : SetSelection(a, h)
  \/ \E k \in 0..(Len(doc) - 1), s \in ScanLines : ReplaceLine(k, s)

RewriteSpec == Init /\ [][RewriteNext]_vars

(***************************************************************************)
(* The specification of line merges: passes, cursor moves, selections and  *)
(* one edit that deletes the line break after a line, as Backspace at the  *)
(* start of a line or Delete at the end of one does, on documents with two *)
(* blocks that touch.                                                      *)
(***************************************************************************)
MergeDocs ==
  {<<"<<<BEGIN", "END>>>", "<<<BEGIN", "END>>>", "a">>,
   <<"a", "<<<BEGIN", "END>>>", "<<<BEGIN", "END>>>">>}

\* the line break after line k is deleted: the text of line k + 1 is appended
\* to line k, positions on line k + 1 move to line k behind its old text, and
\* the widgets of the line that is removed go with it
MergeLines(k) ==
  LET n == Len(doc)
      len == StrLen(getLine(doc, k))
      move(p) == IF p.line <= k THEN p
                 ELSE IF p.line = k + 1 THEN Pos(k, len + p.ch)
                 ELSE Pos(p.line - 1, p.ch)
      moveLine(l) == IF l <= k THEN l ELSE l - 1
  IN
  /\ k < n - 1
  /\ edits < MaxEdits
  /\ (getLine(doc, k) \o getLine(doc, k + 1)) \in Lines
  /\ doc' = SubSeq(doc, 1, k) \o <<getLine(doc, k) \o getLine(doc, k + 1)>> \o SubSeq(doc, k + 3, n)
  /\ markers' = dropEmpty({[m EXCEPT !.from = move(@), !.to = move(@)] :
                               m \in putBehind(markers, Pos(k, len), Pos(k + 1, 0))})
  /\ widgets' = {[w EXCEPT !.line = moveLine(@)] : w \in {v \in widgets : v.line # k + 1}}
  /\ cursor' = moveLine(cursor)
  /\ anchor' = moveLine(anchor)
  /\ last' = History("edit")
  /\ viewport' = WholeDoc(doc')
  /\ edits' = edits + 1
  /\ UNCHANGED <<clearOnClick, renderWhenEditing, flags, lastIndex, taskVars>>

MergeInit ==
  /\ doc \in MergeDocs
  /\ viewport = WholeDoc(doc)
  /\ cursor \in 0..(Len(doc) - 1)
  /\ anchor = cursor
  /\ markers = {}
  /\ widgets = {}
  /\ clearOnClick = FALSE
  /\ renderWhenEditing \in BOOLEAN
  /\ last = History("init")
  /\ edits = 0
  /\ flags = ""
  /\ lastIndex = [begin |-> 0, end |-> 0]
  /\ NoTasks

MergeNext ==
  \/ \E afterSetValue \in BOOLEAN : Process(afterSetValue, NoThrow)
  \/ \E a, h \in 0..(Len(doc) - 1) : SetSelection(a, h)
  \/ \E k \in 0..(Len(doc) - 2) : MergeLines(k)

MergeSpec == MergeInit /\ [][MergeNext]_vars

(***************************************************************************)
(* The specification of passes over a store with any tagged decorations,   *)
(* stale, orphaned or in the middle of a block; passes with renderers that *)
(* do not throw, cursor moves and selections.  Over a document of one      *)
(* block the store has up to two tagged markers over any whole lines and   *)
(* up to two tagged widgets on any lines; over the document of two blocks  *)
(* it has up to three tagged markers, each over one line, and up to two    *)
(* tagged widgets, each at the last line of a block.                       *)
(***************************************************************************)
\* the document of two blocks with a line between them
TwoBlocks == <<"<<<BEGIN", "END>>>", "a", "<<<BEGIN", "END>>>">>

\* the documents with a block: a pass over any other is the empty pass
ConvergeDocs ==
  {d \in [1..MaxInitLines -> EditLines] :
     \E i, j \in 1..MaxInitLines :
        i < j /\ RegTest(blockStartTokenRegexp, d[i]) /\ RegTest(blockEndTokenRegex, d[j])}
    \cup {TwoBlocks}

\* the spans of whole lines of d, and an empty span for no marker
SpanChoices(d) ==
  {<<Pos(0, 0), Pos(0, 0)>>}
    \cup {<<Pos(a, 0), Pos(b, StrLen(getLine(d, b)))>> : a, b \in 0..(Len(d) - 1)}

\* a tagged marker with that id over span sp, as markText of line 340 leaves
\* it, attached in the order of the ids
StoredMarker(id, sp) ==
  IF ~PosLess(sp[1], sp[2]) THEN {}
  ELSE {[id |-> id, className |-> MARKER_CLASS_NAME, from |-> sp[1], to |-> sp[2],
         onclick |-> FALSE, seq |-> id]}

\* a tagged widget with that id on line l (-1 for no widget), as line 356 leaves it
StoredWidget(id, l, content) ==
  IF l < 0 THEN {}
  ELSE {[id |-> id, className |-> lineWidgetClassName, line |-> l,
         node |-> setStyleAndLogical(<<Element(content)>>)]}

\* the spans of one line of d, and an empty span for no marker
LineSpans(d) ==
  {<<Pos(0, 0), Pos(0, 0)>>}
    \cup {<<Pos(a, 0), Pos(a, StrLen(getLine(d, a)))>> : a \in 0..(Len(d) - 1)}

\* the spans of the first two markers of the store, of the third, and the
\* lines of the first widget and of the second (-1 for no widget)
StoredSpans(d) == IF d = TwoBlocks THEN LineSpans(d) ELSE SpanChoices(d)
ThirdSpans(d) == IF d = TwoBlocks THEN LineSpans(d) ELSE {<<Pos(0, 0), Pos(0, 0)>>}
FirstLines(d) == IF d = TwoBlocks THEN {-1, 1} ELSE -1..(Len(d) - 1)
SecondLines(d) == IF d = TwoBlocks THEN {-1, 4} ELSE -1..(Len(d) - 1)

ConvergeInit ==
  /\ doc \in ConvergeDocs
  /\ viewport = WholeDoc(doc)
  /\ cursor = 0
  /\ anchor = 0
  /\ \E a, b \in StoredSpans(doc), c \in ThirdSpans(doc) :
        markers = compact(StoredMarker(1, a) \cup StoredMarker(2, b) \cup StoredMarker(5, c))
  /\ \E k \in FirstLines(doc), l \in SecondLines(doc) :
        widgets = StoredWidget(3, k, <<>>) \cup StoredWidget(4, l, <<>>)
  /\ clearOnClick = FALSE
  /\ renderWhenEditing \in BOOLEAN
  /\ last = History("init")
  /\ edits = 0
  /\ flags = ""
  /\ lastIndex = [begin |-> 0, end |-> 0]
  /\ NoTasks

ConvergeNext ==
  \/ \E afterSetValue \in BOOLEAN : Process(afterSetValue, NoThrow)
  \/ \E a, h \in 0..(Len(doc) - 1) : SetSelection(a, h)

ConvergeSpec == ConvergeInit /\ [][ConvergeNext]_vars

(***************************************************************************)
(* markdownRenderTasks (taskRender.ts).  taskLines are the lines of the    *)
(* document as characters; taskMarkers the text markers that replace a     *)
(* task mark by a checkbox, each [id, line, from, to, cbox] with from and  *)
(* to the ch of its ends; cboxes the checkbox elements, each with the      *)
(* closure of lines 59-120 around it: [id, checked, disabled, attached,    *)
(* listSign, textMarker]; listeners the checkboxes whose updateHandler is  *)
(* registered for optionChange; readOnly the editor's option;              *)
(* taskViewport the result of cm.getViewport(), the lines from .. to - 1   *)
(* that the editor has rendered.  attached tells whether document.body     *)
(* contains the checkbox: the editor puts the checkbox of a marker in the  *)
(* page while the marker's line is rendered.                               *)
(***************************************************************************)
\* the opening line of a fenced block of code in a language, and the closing
FenceOpen == <<"~", "~", "~", "j", "s">>
FenceClose == <<"~", "~", "~">>

\* whether line c is the fence f: f behind at most three spaces (a line with
\* more leading white space is indented code, not a fence)
isFence(c, f) ==
  \E k \in 0..3 :
     /\ Len(c) = k + Len(f)
     /\ \A j \in 1..k : c[j] = " "
     /\ SubSeq(c, k + 1, Len(c)) = f

\* whether line i of lines starts inside a fenced block of code: a line before
\* it opens one and no line between the two closes it
inFence(lines, i) ==
  \E j \in 1..i : isFence(lines[j], FenceOpen)
                    /\ \A k \in (j + 1)..i : ~isFence(lines[k], FenceClose)

\* cm.getModeAt({line: i, ch: 0}).name: the mode at the start of line i
getModeAt(lines, i) == IF inFence(lines, i) THEN "javascript" ELSE "markdown"

\* lines 29-37: the lines fromLine .. toLine that the loop visits
renderWindow(viewPort, vp, n) ==
  IF viewPort THEN [fromLine |-> vp.from, toLine |-> vp.to]
  ELSE [fromLine |-> 0, toLine |-> IF 60 < n THEN 60 ELSE n]

\* whether the editor has rendered line i
rendered(vp, i) == vp.from <= i /\ i < vp.to

\* the number of leading white-space characters of c, the length of match[1]
LeadingSpaces(c) ==
  CHOOSE k \in 0..Len(c) : (\A j \in 1..k : c[j] = " ") /\ (k = Len(c) \/ c[k + 1] # " ")

NoMatch == [ok |-> FALSE, leading |-> 0, listSign |-> "", mark |-> ""]

\* taskRE.exec(line) with lastIndex 0, for a pattern that matches `- [ ]` and
\* `- [x]` after leading white space, with the list sign +, - or *
taskExecAt(c, k) ==
  IF /\ Len(c) >= k + 6
     /\ c[k + 1] \in {"-", "+", "*"}
     /\ c[k + 2] = " " /\ c[k + 3] = "[" /\ c[k + 4] \in {" ", "x"} /\ c[k + 5] = "]"
     /\ c[k + 6] = " "
  THEN [ok |-> TRUE, leading |-> k, listSign |-> c[k + 1], mark |-> c[k + 4]]
  ELSE NoMatch
taskExec(c) == taskExecAt(c, LeadingSpaces(c))

\* canRenderElement: no marker lies over the range already
canRenderElement(ms, line, from, to) ==
  ~\E m \in ms : m.line = line /\ m.from < to /\ from < m.to

\* an id that none of the records of S carries
freshTaskId(S) == CHOOSE i \in 1..(Cardinality(S) + 1) : i \notin {x.id : x \in S}

\* the marker that the callback of an open menu holds (render-h-tags.ts line 127)
MenuHeld == IF menu.open THEN {menu.textMarker} ELSE {}

\* an id for a new marker: one that no marker carries and no closure holds
freshMarkerId(ms, bs) ==
  CHOOSE i \in 1..(Cardinality(ms) + Cardinality(bs) + 2) :
    i \notin {m.id : m \in ms} \cup {b.textMarker : b \in bs} \cup MenuHeld

\* textMarker.find() for the marker with that id: its record, or none
findMarker(ms, id) == {m \in ms : m.id = id}

\* the checkbox elements that are still reachable: the one a marker carries,
\* and the one a registered listener holds
alive(t) ==
  [t EXCEPT !.cboxes = {b \in @ : b.id \in t.listeners \/ \E m \in t.markers : m.cbox = b.id}]

\* lines 50-120 for line i, whose match is m: the checkbox, its marker and its
\* listener are added to t = [markers, cboxes, listeners]
renderLine(t, i, m, attached) ==
  [markers |-> t.markers \cup
                 {[id |-> freshMarkerId(t.markers, t.cboxes), line |-> i, from |-> m.leading,
                   to |-> 5 + m.leading, cbox |-> freshTaskId(t.cboxes)]},
   cboxes |-> t.cboxes \cup
                 {[id |-> freshTaskId(t.cboxes), checked |-> (m.mark = "x"),
                   disabled |-> readOnly, attached |-> attached, listSign |-> m.listSign,
                   textMarker |-> freshMarkerId(t.markers, t.cboxes)]},
   listeners |-> t.listeners \cup {freshTaskId(t.cboxes)}]

\* the loop of lines 38-121 from line i on, up to line toLine and that line
\* too: a line that is not in markdown mode is passed over (line 39), and so
\* is line lineCount, where getLine gives undefined, which taskRE does not
\* match; the checkbox of a line that is not rendered is not in the page
RECURSIVE renderLoop(_, _, _)
renderStep(t, i, toLine, m) ==
  IF m.ok /\ canRenderElement(t.markers, i, m.leading, 5 + m.leading)
  THEN renderLoop(renderLine(t, i, m, rendered(taskViewport, i)), i + 1, toLine)
  ELSE renderLoop(t, i + 1, toLine)
renderLoop(t, i, toLine) ==
  IF i > toLine THEN t
  ELSE IF i >= Len(taskLines) \/ getModeAt(taskLines, i) # "markdown"
  THEN renderLoop(t, i + 1, toLine)
  ELSE renderStep(t, i, toLine, taskExec(taskLines[i + 1]))

\* cm.replaceRange(text, from, to) inside line c
replaceRange(c, text, from, to) == SubSeq(c, 1, from) \o text \o SubSeq(c, to + 1, Len(c))

\* lines 94-95: the text written for checkbox b, whose checked is the new state
newMarkText(b) == <<b.listSign, " ", "[", IF b.checked THEN "x" ELSE " ", "]">>

\* lines 91-106 with at the marker that textMarker.find() found: replaceRange
\* removes the marker, whose whole text it replaces, and markText puts a new
\* one over the same positions, which the closure keeps as textMarker
markAgain(t, b, at, id) ==
  [t EXCEPT
     !.lines[at.line + 1] = replaceRange(@, newMarkText(b), at.from, at.to),
     !.markers = {m \in @ : m.id # at.id} \cup
                   {[id |-> id, line |-> at.line, from |-> at.from, to |-> at.to,
                     cbox |-> b.id]},
     !.cboxes = {IF x.id = b.id THEN [b EXCEPT !.textMarker = id] ELSE x : x \in @}]
toggle(t, b, at) ==
  markAgain(t, b, at, freshMarkerId({m \in t.markers : m.id # at.id},
                                    {y \in t.cboxes : y.id # b.id}))

\* onclick without the read-only test of line 87
onclickWhenReadOnly(t, b, pos) ==
  IF pos = {} THEN t ELSE toggle(t, b, CHOOSE m \in pos : TRUE)

\* cbox.onclick, lines 85-107, for checkbox b (checked already the new state)
\* with pos the result of textMarker.find(), on t = [lines, markers, cboxes]
onclick(t, b, pos) ==
  IF readOnly \/ pos = {} THEN t ELSE toggle(t, b, CHOOSE m \in pos : TRUE)

\* the optionChange event: updateHandler, lines 110-117, of every registered
\* listener, on t = [cboxes, listeners, readOnly]
optionChange(t) ==
  [t EXCEPT !.listeners = {id \in @ : \E b \in t.cboxes : b.id = id /\ b.attached},
            !.cboxes = {IF b.id \in t.listeners THEN [b EXCEPT !.disabled = t.readOnly]
                        ELSE b : b \in @}]

\* the state after an operation that leaves lines, the store t = [markers,
\* cboxes, listeners], the option ro and the record hist
TaskStep(lines, t, ro, hist) ==
  /\ taskLines' = lines
  /\ taskMarkers' = t.markers
  /\ cboxes' = t.cboxes
  /\ listeners' = t.listeners
  /\ readOnly' = ro
  /\ taskLast' = hist
  /\ UNCHANGED <<blockVars, taskViewport, menu>>

TaskStore == [markers |-> taskMarkers, cboxes |-> cboxes, listeners |-> listeners]

\* markdownRenderTasks(cm, viewPort): the loop over the window of lines 29-37
Rendered(t) ==
  /\ t # TaskStore
  /\ Cardinality(t.cboxes) <= MaxBoxes
  /\ TaskStep(taskLines, t, readOnly, [TaskHistory("render") EXCEPT !.markers = taskMarkers])
renderTasks(w) == renderLoop(TaskStore, w.fromLine, w.toLine)
Render(viewPort) ==
  Rendered(renderTasks(renderWindow(viewPort, taskViewport, Len(taskLines))))

\* the click record: the state before, what find() gave, and whether this is
\* the second of two successive clicks on the checkbox that both wrote
ClickHistory(b, pos) ==
  [TaskHistory("click") EXCEPT
     !.box = b.id, !.lines = taskLines, !.markers = taskMarkers, !.readOnly = readOnly,
     !.found = (pos # {}),
     !.line = IF pos = {} THEN 0 ELSE (CHOOSE m \in pos : TRUE).line,
     !.from = IF pos = {} THEN 0 ELSE (CHOOSE m \in pos : TRUE).from,
     !.to = IF pos = {} THEN 0 ELSE (CHOOSE m \in pos : TRUE).to,
     !.streak = IF readOnly \/ pos = {} THEN 0
                ELSE IF taskLast.op = "click" /\ taskLast.box = b.id /\ taskLast.streak > 0
                THEN 2 ELSE 1,
     !.origin = IF taskLast.op = "click" /\ taskLast.box = b.id /\ taskLast.streak > 0
                THEN taskLast.lines ELSE <<>>]

\* a click on checkbox b: the browser does not deliver it to a disabled
\* checkbox, and toggles checked before it calls onclick
Clicked(t, hist) ==
  TaskStep(t.lines, alive([markers |-> t.markers, cboxes |-> t.cboxes, listeners |-> listeners]),
           readOnly, hist)
Click(b) ==
  /\ b \in cboxes
  /\ ~b.disabled
  /\ Clicked(onclick([lines |-> taskLines, markers |-> taskMarkers,
                      cboxes |-> {IF x.id = b.id THEN [x EXCEPT !.checked = ~@] ELSE x :
                                    x \in cboxes}],
                     [b EXCEPT !.checked = ~@], findMarker(taskMarkers, b.textMarker)),
             ClickHistory(b, findMarker(taskMarkers, b.textMarker)))

\* the windows of rendered lines of a document of n lines
TaskViewports(n) == {vp \in [from : 0..(n - 1), to : 1..n] : vp.from < vp.to}

\* the editor scrolls to the window vp: the checkboxes of the markers on the
\* lines it renders are in the page, the others are not
Scroll(vp) ==
  /\ vp \in TaskViewports(Len(taskLines))
  /\ vp # taskViewport
  /\ taskLines' = taskLines
  /\ taskMarkers' = taskMarkers
  /\ cboxes' = {[b EXCEPT !.attached = \E m \in taskMarkers :
                                          m.cbox = b.id /\ rendered(vp, m.line)] : b \in cboxes}
  /\ listeners' = listeners
  /\ readOnly' = readOnly
  /\ taskLast' = TaskHistory("scroll")
  /\ taskViewport' = vp
  /\ UNCHANGED <<blockVars, menu>>

\* marker m is cleared (clearOnEnter, or the hide handler of line 83): its
\* checkbox leaves the page
ClearMarker(m) ==
  /\ m \in taskMarkers
  /\ TaskStep(taskLines,
              alive([TaskStore EXCEPT
                       !.markers = @ \ {m},
                       !.cboxes = {IF x.id = m.cbox THEN [x EXCEPT !.attached = FALSE]
                                   ELSE x : x \in @}]),
              readOnly, TaskHistory("clear"))

\* cm.setOption('readOnly', ro): the option is set, then optionChange is
\* signalled to the registered listeners
OptionChanged(t) ==
  TaskStep(taskLines,
           alive([markers |-> taskMarkers, cboxes |-> t.cboxes, listeners |-> t.listeners]),
           t.readOnly, TaskHistory("option"))
SetOption(ro) ==
  OptionChanged(optionChange([cboxes |-> cboxes, listeners |-> listeners, readOnly |-> ro]))

\* a space is typed at the start of line i: the markers of the line move right
TypeLeft(i) ==
  /\ i \in 0..(Len(taskLines) - 1)
  /\ LeadingSpaces(taskLines[i + 1]) < MaxLead
  /\ TaskStep([taskLines EXCEPT ![i + 1] = <<" ">> \o @],
              [TaskStore EXCEPT !.markers = {IF m.line = i
                                             THEN [m EXCEPT !.from = @ + 1, !.to = @ + 1]
                                             ELSE m : m \in @}],
              readOnly, TaskHistory("type"))

(***************************************************************************)
(* markdownRenderHTags (render-h-tags.ts), which works on the same editor: *)
(* the marker of a heading indicator is a marker of taskMarkers without a  *)
(* checkbox (cbox = 0), over the number signs of its line; menu is the     *)
(* popup menu that a click on an indicator opens, with the marker that its *)
(* callback holds.  taskLast records every operation of the indicators as  *)
(* "heading".                                                              *)
(***************************************************************************)
\* the number of leading number signs of c, the length of match[1]
LeadingHashes(c) ==
  CHOOSE k \in 0..Len(c) : (\A j \in 1..k : c[j] = "#") /\ (k = Len(c) \/ c[k + 1] # "#")

\* headRE.exec(line) with lastIndex 0, for a pattern that matches one to six
\* number signs at the start of the line and a space behind them
headExec(c) ==
  [ok |-> LeadingHashes(c) \in 1..6 /\ Len(c) > LeadingHashes(c)
            /\ c[LeadingHashes(c) + 1] = " ",
   headingLevel |-> LeadingHashes(c)]

\* lines 48-70 for line i with that heading level: markText over the number
\* signs, on the markers ms
hTagLine(ms, i, headingLevel) ==
  ms \cup {[id |-> freshMarkerId(ms, cboxes), line |-> i, from |-> 0, to |-> headingLevel,
            cbox |-> 0]}

\* the loop of lines 34-142 from line i on, up to line toLine and without it:
\* a line that is not in markdown mode is passed over (line 35)
RECURSIVE hTagLoop(_, _, _)
hTagStep(ms, i, toLine, m) ==
  IF m.ok /\ canRenderElement(ms, i, 0, m.headingLevel)
  THEN hTagLoop(hTagLine(ms, i, m.headingLevel), i + 1, toLine)
  ELSE hTagLoop(ms, i + 1, toLine)
hTagLoop(ms, i, toLine) ==
  IF i >= toLine THEN ms
  ELSE IF i >= Len(taskLines) \/ getModeAt(taskLines, i) # "markdown"
  THEN hTagLoop(ms, i + 1, toLine)
  ELSE hTagStep(ms, i, toLine, headExec(taskLines[i + 1]))

\* markdownRenderHTags(cm, viewPort): the loop over the window of lines 25-33
RenderedHTags(ms) ==
  /\ ms # taskMarkers
  /\ TaskStep(taskLines, [TaskStore EXCEPT !.markers = ms], readOnly, TaskHistory("heading"))
renderHTags(w) == hTagLoop(taskMarkers, w.fromLine, w.toLine)
RenderHTags(viewPort) ==
  RenderedHTags(renderHTags(renderWindow(viewPort, taskViewport, Len(taskLines))))

\* the state after an operation on the menu that leaves lines, markers ms and
\* the menu mn
MenuStep(lines, ms, mn, hist) ==
  /\ taskLines' = lines
  /\ taskMarkers' = ms
  /\ menu' = mn
  /\ taskLast' = hist
  /\ UNCHANGED <<blockVars, cboxes, listeners, readOnly, taskViewport>>

\* hTagWrapper.onclick, lines 73-124, of the indicator of marker m, which is
\* in the page while its line is rendered: the menu opens.  While the editor
\* is read-only every item is disabled (lines 83-118) and no item can be
\* chosen: that menu does nothing and is not kept
HTagClick(m) ==
  /\ m \in taskMarkers
  /\ m.cbox = 0
  /\ rendered(taskViewport, m.line)
  /\ ~readOnly
  /\ menu # [open |-> TRUE, textMarker |-> m.id]
  /\ MenuStep(taskLines, taskMarkers, [open |-> TRUE, textMarker |-> m.id],
              TaskHistory("heading"))

\* '#'.repeat(newLevel)
Hashes(newLevel) == [j \in 1..newLevel |-> "#"]

\* lines 134-135 with at the marker that textMarker.find() found: replaceRange
\* writes the number signs over the marker's range, the markers behind it on
\* the line move with the text, and the marker is cleared
setLevel(t, at, newLevel) ==
  [lines |-> [t.lines EXCEPT ![at.line + 1] = replaceRange(@, Hashes(newLevel), at.from, at.to)],
   markers |-> {IF m.line = at.line /\ m.from >= at.to
                THEN [m EXCEPT !.from = @ + newLevel - (at.to - at.from),
                               !.to = @ + newLevel - (at.to - at.from)]
                ELSE m : m \in t.markers \ {at}}]

\* the callback of lines 124-140 for the item newLevel, with pos the result
\* of textMarker.find(), on t = [lines, markers]
menuChoice(t, pos, newLevel) ==
  IF pos = {} THEN t ELSE setLevel(t, CHOOSE m \in pos : TRUE, newLevel)

\* an item of the open menu is chosen, and the menu closes
Chosen(t) == MenuStep(t.lines, t.markers, NoMenu, TaskHistory("heading"))
HTagChoose(newLevel) ==
  /\ menu.open
  /\ newLevel \in 1..(IF MaxLevel < 6 THEN MaxLevel ELSE 6)
  /\ Chosen(menuChoice([lines |-> taskLines, markers |-> taskMarkers],
                       findMarker(taskMarkers, menu.textMarker), newLevel))

\* the menu is closed without a choice
DismissMenu ==
  /\ menu.open
  /\ MenuStep(taskLines, taskMarkers, NoMenu, TaskHistory("heading"))

\* the lines of the task documents: unchecked, checked after a leading space,
\* and not a task
TaskLineChoices ==
  {<<"-", " ", "[", " ", "]", " ", "t">>,
   <<" ", "*", " ", "[", "x", "]", " ", "t">>,
   <<"t">>}

\* one line of each kind, a document of two task lines, one with a task line
\* behind a line that is none, one with a task line in a block of code, one
\* with a task line behind a closed block of code, and one with a task line
\* behind a heading
TaskDocs ==
  {<<c>> : c \in TaskLineChoices}
    \cup {<<<<"-", " ", "[", " ", "]", " ", "t">>, <<" ", "*", " ", "[", "x", "]", " ", "t">>>>,
          <<<<"t">>, <<"-", " ", "[", " ", "]", " ", "t">>>>,
          <<FenceOpen, <<"-", " ", "[", " ", "]", " ", "t">>>>,
          <<FenceOpen, FenceClose, <<"-", " ", "[", " ", "]", " ", "t">>>>,
          <<<<"#", " ", "h">>, <<"-", " ", "[", " ", "]", " ", "t">>>>}

TaskInit ==
  /\ doc = <<"a">>
  /\ viewport = WholeDoc(doc)
  /\ cursor = 0
  /\ anchor = 0
  /\ markers = {}
  /\ widgets = {}
  /\ clearOnClick = FALSE
  /\ renderWhenEditing = FALSE
  /\ last = History("init")
  /\ edits = 0
  /\ flags = ""
  /\ lastIndex = [begin |-> 0, end |-> 0]
  /\ taskLines \in TaskDocs
  /\ taskMarkers = {}
  /\ cboxes = {}
  /\ listeners = {}
  /\ readOnly \in BOOLEAN
  /\ taskLast = TaskHistory("init")
  /\ taskViewport \in TaskViewports(Len(taskLines))
  /\ menu = NoMenu

TaskNext ==
  \/ \E viewPort \in BOOLEAN : Render(viewPort)
  \/ \E b \in cboxes : Click(b)
  \/ \E vp \in TaskViewports(Len(taskLines)) : Scroll(vp)
  \/ \E m \in taskMarkers : ClearMarker(m)
  \/ \E ro \in BOOLEAN : SetOption(ro)
  \/ \E i \in 0..(Len(taskLines) - 1) : TypeLeft(i)
  \/ \E viewPort \in BOOLEAN : RenderHTags(viewPort)
  \/ \E m \in taskMarkers : HTagClick(m)
  \/ \E newLevel \in 1..6 : HTagChoose(newLevel)
  \/ DismissMenu

TaskSpec == TaskInit /\ [][TaskNext]_vars

(***************************************************************************)
(* Vocabulary of the properties.                                           *)
(***************************************************************************)
Min(S) == CHOOSE x \in S : \A y \in S : x <= y

IsBeginLine(d, i) == RegTest(blockStartTokenRegexp, getLine(d, i))
IsEndLine(d, i) == RegTest(blockEndTokenRegex, getLine(d, i))

\* the non-nesting pairing of the whole document from line start on: the first
\* begin line is paired with the first end line after it, and so on after that
RECURSIVE Pairing(_, _)
Pairing(d, start) ==
  LET begins == {i \in start..(Len(d) - 1) : IsBeginLine(d, i)} IN
  IF begins = {} THEN <<>>
  ELSE LET b == Min(begins)
           ends == {j \in (b + 1)..(Len(d) - 1) : IsEndLine(d, j)}
       IN IF ends = {} THEN <<>>
          ELSE <<BlockRange(d, b, Min(ends))>> \o Pairing(d, Min(ends) + 1)

Emitted == {last.blockRangeList[i] : i \in 1..Len(last.blockRangeList)}

\* the latest operation was a pass, and it returned
Returned == last.op = "process" /\ last.threw = "none"

Tagged(ms) == {m \in ms : m.className = MARKER_CLASS_NAME}
TaggedWidgets(ws) == {w \in ws : w.className = lineWidgetClassName}

EndOfLine(l) == Pos(l, StrLen(getLine(doc, l)))

\* marker m covers some text of the lines of range r
Covers(m, r) == PosLess(m.from, EndOfLine(r.to)) /\ PosLess(Pos(r.from, 0), m.to)

CursorOutside(r) == cursor < r.from \/ cursor > r.to

SelectionOverlaps(r) ==
  /\ anchor # cursor
  /\ (IF anchor < cursor THEN anchor ELSE cursor) <= r.to
  /\ (IF anchor < cursor THEN cursor ELSE anchor) >= r.from

(***************************************************************************)
(* Properties of the scan (checked under ScanSpec).                        *)
(***************************************************************************)
\* C6: a begin-token line with no end-token line after it anywhere in the
\* document never yields a BlockRange, in viewport mode and in full-document
\* mode, for every viewport.
C6_UnterminatedNeverEmitted ==
  last.op = "process" =>
    \A r \in Emitted : \E j \in (r.from + 1)..(Len(doc) - 1) : IsEndLine(doc, j)

\* C7: process(true) emits exactly the ranges of the non-nesting pairing of
\* all lines, whatever the viewport.
C7_FullDocumentDiscovery ==
  (last.op = "process" /\ last.afterSetValue) => last.blockRangeList = Pairing(doc, 0)

\* C8: in viewport mode process() emits exactly the blocks of the whole-document
\* pairing whose begin line is below viewport.to and whose end line is at or
\* after viewport.from.
C8_ViewportDiscovery ==
  (last.op = "process" /\ ~last.afterSetValue) =>
    last.blockRangeList =
      SelectSeq(Pairing(doc, 0), LAMBDA r : r.from < viewport.to /\ r.to >= viewport.from)

\* C8 witness: a viewport pass emitted a block that opens inside the window and
\* closes below it, while a block closed above the window was left out
C8_Witness ==
  /\ last.op = "process" /\ ~last.afterSetValue
  /\ \E r \in Emitted : viewport.from <= r.from /\ r.from < viewport.to /\ r.to >= viewport.to
  /\ \E i \in 1..Len(Pairing(doc, 0)) : Pairing(doc, 0)[i].to < viewport.from

(***************************************************************************)
(* Properties of the reconciler (checked under Spec).                      *)
(***************************************************************************)
\* the tagged decorations as the claims compare them: marker spans, widget lines
Shape == <<{<<m.from, m.to>> : m \in Tagged(markers)},
           {w.line : w \in TaggedWidgets(widgets)}>>

\* C1: two passes in a row, with nothing changed in between and both returning,
\* leave the same tagged marker spans and the same tagged widget lines.
C1_Idempotence ==
  [][(Returned /\ last'.op = "process" /\ last'.threw = "none") => Shape' = Shape]_vars

\* C2: after a pass returns, a range that the selection overlaps while the
\* cursor is outside it has no tagged marker and no tagged widget at its toLine.
C2_SelectionOverridesCollapse ==
  Returned =>
    \A r \in Emitted :
      (SelectionOverlaps(r) /\ CursorOutside(r)) =>
        /\ ~\E m \in Tagged(markers) : Covers(m, r)
        /\ ~\E w \in TaggedWidgets(widgets) : w.line = r.to

\* marker m covers range r but its lines are not exactly the lines of r
Stale(m, r) == Covers(m, r) /\ (m.from.line # r.from \/ m.to.line # r.to)

\* C3: a pass that finds a stale tagged marker on a range, with the cursor
\* outside the range and no selection on it, removes that marker and ends with
\* a marker over exactly the range and a widget at its toLine.
C3_RangeMoveInvalidation ==
  Returned =>
    \A r \in Emitted : \A m \in Tagged(last.markers) :
      (Stale(m, r) /\ CursorOutside(r) /\ ~SelectionOverlaps(r)) =>
        /\ m \notin markers
        /\ \E n \in Tagged(markers) : n.from = Pos(r.from, 0) /\ n.to = EndOfLine(r.to)
        /\ \E w \in TaggedWidgets(widgets) : w.line = r.to

\* the case of C4: cursor outside r, no selection on r, and no tagged marker or
\* widget on r before the pass
Undecorated(r) ==
  /\ CursorOutside(r) /\ ~SelectionOverlaps(r)
  /\ ~\E m \in Tagged(last.markers) : Covers(m, r)
  /\ ~\E w \in TaggedWidgets(last.widgets) : w.line \in r.from..r.to

\* after the pass r has one tagged marker, from (fromLine, 0) to position
\* toPos, and one tagged widget at toLine
CollapsedTo(r, toPos) ==
  /\ \E m \in Tagged(markers) :
       /\ {n \in Tagged(markers) : Covers(n, r)} = {m}
       /\ m.from = Pos(r.from, 0) /\ m.to = toPos
  /\ Cardinality({w \in TaggedWidgets(widgets) : w.line = r.to}) = 1

C5_CursorInsideReveal ==
  Returned =>
    \A r \in Emitted :
      ~CursorOutside(r) =>
        /\ ~\E m \in Tagged(markers) : Covers(m, r)
        /\ (\E w \in TaggedWidgets(widgets) : w.line = r.to) <=> renderWhenEditing

\* C9: a pass that a renderer callback ended leaves no marker it created
\* without a widget on the marker's last line, and no widget it emptied.
C9_RendererFailure ==
  (last.op = "process" /\ last.threw \in {"renderer", "spanRenderer"}) =>
    /\ \A m \in Tagged(markers) \ last.markers :
         \E w \in TaggedWidgets(widgets) : w.line = m.to.line
    /\ \A w \in TaggedWidgets(widgets) : w.node = <<>> => w \in last.widgets

\* C10: after a pass returns, every tagged marker lies on the lines of a block
\* the scan found and every tagged widget is at the toLine of such a block.
C10_BlockDeathClears ==
  Returned =>
    /\ \A m \in Tagged(markers) : \E r \in Emitted : m.from.line = r.from /\ m.to.line = r.to
    /\ \A w \in TaggedWidgets(widgets) : \E r \in Emitted : w.line = r.to

(***************************************************************************)
(* Invariants of the store (checked under MergeSpec).                      *)
(***************************************************************************)
\* the ranges the scanner emits for the document as it is, in either mode
BlockRanges ==
  UNION {{scanBlocks(doc, viewport, asv)[i] : i \in 1..Len(scanBlocks(doc, viewport, asv))} :
           asv \in BOOLEAN}

\* in store (ms, ws) range r has at most one tagged marker covering text of its
\* lines and at most one tagged widget at its toLine
AtMostOnePair(ms, ws, r) ==
  /\ Cardinality({m \in Tagged(ms) : Covers(m, r)}) <= 1
  /\ Cardinality({w \in TaggedWidgets(ws) : w.line = r.to}) <= 1

\* the store of a pass from this state after its first n ranges
PassPrefix(afterSetValue, n) ==
  LET blockRangeList == scanBlocks(doc, viewport, afterSetValue)
  IN markRanges([markers |-> markers, widgets |-> widgets, threw |-> "none", calls |-> 0,
                 blockRangeList |-> blockRangeList, cleared |-> {}],
                SubSeq(blockRangeList, 1, n), 1, NoThrow)

\* every store a pass from this state goes through between two ranges has at
\* most one pair on each block range
InsidePass ==
  \A asv \in BOOLEAN : \A n \in 1..(Len(scanBlocks(doc, viewport, asv)) - 1) :
    \A r \in BlockRanges :
      AtMostOnePair(PassPrefix(asv, n).markers, PassPrefix(asv, n).widgets, r)

Untagged(ms) == ms \ Tagged(ms)
UntaggedWidgets(ws) == ws \ TaggedWidgets(ws)

\* C12: a pass or a handler of the engine leaves every marker and every line
\* widget of another class name as it was, creates none and removes none.
C12_ClassTagIsolation ==
  [][(last'.op \in {"process", "markerclick", "editclick"}) =>
       /\ Untagged(markers') = Untagged(markers)
       /\ UntaggedWidgets(widgets') = UntaggedWidgets(widgets)]_vars

\* C12 witness: a pass removed a tagged widget from a line that carries a
\* widget of another kind, on a range that a marker of another kind overlaps
C12_Witness ==
  /\ Returned
  /\ \E r \in Emitted :
       /\ \E m \in Untagged(markers) : Covers(m, r)
       /\ \E w \in UntaggedWidgets(widgets) : w.line = r.to
       /\ \E w \in TaggedWidgets(last.widgets) \ widgets : w.line = r.to

(***************************************************************************)
(* Frame properties of a pass (checked under Spec).                        *)
(***************************************************************************)
\* C13: a pass whose scan emits no range leaves every marker and every widget
\* as it was, invokes no renderer callback and raises nothing.
C13_NoOpOnEmptyScan ==
  (last.op = "process" /\ last.blockRangeList = <<>>) =>
    /\ markers = last.markers
    /\ widgets = last.widgets
    /\ last.calls = 0
    /\ last.threw = "none"

\* C13 witness: such a pass on a store that holds a tagged marker and widget
C13_Witness ==
  /\ last.op = "process" /\ last.blockRangeList = <<>>
  /\ Tagged(markers) # {}
  /\ TaggedWidgets(widgets) # {}

\* C14: a pass that follows a returned pass with nothing changed in between
\* creates no decoration, removes none, rewrites no widget and invokes no
\* renderer callback.
C14_NoMutationOnRepeat ==
  [][(Returned /\ last'.op = "process" /\ last'.threw = "none") =>
       /\ markers' = markers
       /\ widgets' = widgets
       /\ last'.calls = 0]_vars

(***************************************************************************)
(* More properties of the scan (checked under ScanSpec).                   *)
(***************************************************************************)
WellFormed(list) ==
  /\ \A i \in 1..Len(list) : list[i].from < list[i].to
  /\ \A i, j \in 1..Len(list) : i < j => list[i].to < list[j].from

\* C15: in every pass, in either mode and for every viewport, each emitted
\* range has fromLine < toLine, and the ranges are disjoint and in strictly
\* ascending line order.
C15_WellFormedOrdered == last.op = "process" => WellFormed(last.blockRangeList)

(***************************************************************************)
(* The edit affordance (checked under Spec).                               *)
(***************************************************************************)
\* C16: an activation of the edit affordance raises no error; it clears the
\* marker of its widget if that marker is still attached and selects the lines
\* between the marker's first and last line; with the marker already removed
\* it changes neither the store nor the selection.
C16_EditAffordance ==
  [][(last'.op = "editclick") =>
       /\ last'.threw = "none"
       /\ widgets' = widgets
       /\ \E w \in TaggedWidgets(widgets) :
            IF \E m \in markers : m.id = w.id
            THEN \E m \in markers :
                   /\ m.id = w.id
                   /\ markers' = markers \ {m}
                   /\ m.from.line < m.to.line => (anchor' = m.from.line + 1 /\ cursor' = m.to.line - 1)
            ELSE markers' = markers /\ anchor' = anchor /\ cursor' = cursor]_vars

(***************************************************************************)
(* Healing of partial decorations.                                         *)
(***************************************************************************)
\* C17: after a pass returns, every tagged marker that overlaps an emitted
\* range runs from (fromLine, 0) to the end of toLine and has a tagged widget
\* at toLine; and a tagged marker that overlapped an emitted range at the start
\* of the pass with no tagged widget at its toLine has been cleared by the pass.
C17_OrphanHealing ==
  Returned =>
    \A r \in Emitted :
      /\ \A m \in Tagged(markers) :
           Covers(m, r) =>
             /\ m.from = Pos(r.from, 0) /\ m.to = EndOfLine(r.to)
             /\ \E w \in TaggedWidgets(widgets) : w.line = r.to
      /\ \A m \in Tagged(last.markers) :
           (Covers(m, r) /\ ~\E w \in TaggedWidgets(last.widgets) : w.line = r.to) =>
             m.id \in last.cleared

\* C18: after a pass returns, no emitted range has a tagged widget at a line i
\* with fromLine <= i < toLine.
C18_NoMidBlockWidget ==
  Returned =>
    \A r \in Emitted : ~\E w \in TaggedWidgets(widgets) : r.from <= w.line /\ w.line < r.to

(***************************************************************************)
(* Pattern objects that keep a lastIndex (checked under PatternSpec).      *)
(***************************************************************************)
\* the result of test t on a pattern object whose lastIndex is 0
FreshResult(t) ==
  RegTestAt(IF t.pat = "begin" THEN blockStartTokenRegexp ELSE blockEndTokenRegex,
            flags, 0, getLine(doc, t.line)).ok

\* C19: every begin-token and end-token test a pass makes gives the result of
\* a match of that pattern against that line from position 0, whatever was
\* tested before it in this pass or in earlier passes and whatever flags the
\* pattern objects carry.
C19_StatelessMatching ==
  last.op = "process" =>
    \A k \in 1..Len(last.tests) : last.tests[k].ok = FreshResult(last.tests[k])

(***************************************************************************)
(* Markers only where the block is collapsed (checked under MergeSpec).    *)
(***************************************************************************)
\* C20: after a pass returns, an emitted range that a tagged marker covers has
\* the cursor outside [fromLine, toLine] and no selection overlapping it.
C20_MarkerImpliesCollapsed ==
  Returned =>
    \A r \in Emitted :
      (\E m \in Tagged(markers) : Covers(m, r)) =>
        CursorOutside(r) /\ ~SelectionOverlaps(r)

(***************************************************************************)
(* Convergence of repeated passes (checked under ConvergeSpec).            *)
(***************************************************************************)
\* the tagged decorations of store s: marker spans, widget lines, and how many
ShapeOf(s) ==
  <<{<<m.from, m.to>> : m \in Tagged(s.markers)}, Cardinality(Tagged(s.markers)),
    {w.line : w \in TaggedWidgets(s.widgets)}, Cardinality(TaggedWidgets(s.widgets))>>

\* the store after a pass with renderers that do not throw, from store s
StoreAfterPass(s, afterSetValue) ==
  afterScan([markers |-> s.markers, widgets |-> s.widgets, threw |-> "none", calls |-> 0,
             blockRangeList |-> scanBlocks(doc, viewport, afterSetValue), cleared |-> {}],
            NoThrow)

FixedBy(s, afterSetValue) == ShapeOf(StoreAfterPass(s, afterSetValue)) = ShapeOf(s)

\* C21: from the store of any state, with the document, cursor, selection and
\* viewport as they are, the store after three passes is the store after two.
C21_Convergence ==
  \A afterSetValue \in BOOLEAN :
    FixedBy(StoreAfterPass(StoreAfterPass([markers |-> markers, widgets |-> widgets],
                                          afterSetValue), afterSetValue), afterSetValue)

(***************************************************************************)
(* Properties of the task checkboxes (checked under TaskSpec).             *)
(***************************************************************************)
\* the checkbox of the latest click
ClickedBox == CHOOSE b \in cboxes : b.id = taskLast.box

\* the latest operation was a click that found its marker, not read-only
Toggled == taskLast.op = "click" /\ ~taskLast.readOnly /\ taskLast.found

\* the line of the click as it was, with the marker's range replaced by the
\* list sign that was there and the mark for checked
MarkReplaced(old, checked) ==
  SubSeq(old, 1, taskLast.from)
    \o <<old[taskLast.from + 1], " ", "[", IF checked THEN "x" ELSE " ", "]">>
    \o SubSeq(old, taskLast.to + 1, Len(old))

\* C22: a click that finds its marker while the editor is not read-only
\* replaces exactly the marker's range by the list sign and the mark of the
\* checkbox's new state, leaves exactly one marker over that range, the
\* checkbox's, and the second of two successive such clicks restores the text.
C22_TaskToggle ==
  Toggled =>
    /\ taskLines = [taskLast.lines EXCEPT ![taskLast.line + 1] =
                                            MarkReplaced(@, ClickedBox.checked)]
    /\ \E m \in taskMarkers :
         /\ m.line = taskLast.line /\ m.from = taskLast.from /\ m.to = taskLast.to
         /\ m.cbox = taskLast.box
         /\ \A n \in taskMarkers :
              (n.line = m.line /\ n.from < m.to /\ m.from < n.to) => n = m
    /\ taskLast.streak = 2 => taskLines = taskLast.origin

\* C23: a click while the editor is read-only, or on a checkbox whose marker
\* is gone, changes no text and no marker.
C23_TaskGuard ==
  (taskLast.op = "click" /\ (taskLast.readOnly \/ ~taskLast.found)) =>
    taskLines = taskLast.lines /\ taskMarkers = taskLast.markers

\* C23 witness: a click reached a checkbox whose marker is in the document
\* while the editor is read-only
C23_Witness ==
  taskLast.op = "click" /\ taskLast.readOnly /\ taskLast.found /\ taskMarkers # {}

\* C24: every checkbox with a marker was registered by its rendering, and after
\* an optionChange event the registered listeners are those of attached
\* checkboxes and every attached checkbox has the editor's read-only state as
\* its disabled flag.
C24_ListenerLifecycle ==
  /\ taskLast.op = "render" =>
       \A b \in cboxes : (b.textMarker \notin {m.id : m \in taskLast.markers}) => b.id \in listeners
  /\ taskLast.op = "option" =>
       /\ \A id \in listeners : \E b \in cboxes : b.id = id /\ b.attached
       /\ \A b \in cboxes : b.attached => b.disabled = readOnly

====
